---- MODULE Spec2Model ----
(***************************************************************************)
(* BananaBath: retrieval / re-ranking pipeline.                            *)
(*                                                                         *)
(* Two copies of the pipeline exist in the repository:                     *)
(*   "design" : src/design/search.py  (fixed-K ranking, served by          *)
(*              src/design/app.py with top_k = 12)                         *)
(*   "root"   : src/search.py         (threshold-filtered ranking, served  *)
(*              by src/app.py)                                             *)
(*                                                                         *)
(* Texts are sequences of one-character strings.  Similarities and scores  *)
(* are integers in tenths (0.5 is 5, 1.0 is 10).                           *)
(***************************************************************************)
EXTENDS Integers, Sequences, FiniteSets

VARIABLES
    module,                 \* which copy of search.py this process imported
    pc,                     \* "start" | "serving" | "returned" | "exited"
    db_file,                \* database.json on disk: [exists, items]
    npy_rows,               \* embeddings.npy on disk: its row count, -1 (missing)
                            \* or -2 (a file np.load cannot read)
    data,                   \* global data (list of items)
    embeddings,             \* global embeddings, as embeddings.shape[0]
    user_query,             \* argument of the last parse / search
    top_k,                  \* top_k argument of the last search (design), else -1
    parsed_query,           \* result of get_structured_query, or NotParsed
    encoded,                \* texts handed to model.encode by the last search
    similarities_positive,  \* cosine similarities of the positive text
    similarities_negative,  \* cosine similarities of the negative text, <<>> if none
    final_scores,           \* final_scores of the last search
    sorted_indices,         \* np.argsort(final_scores) of the last search
    results,                \* list returned by the last search
    outcome,                \* "none" | "ok" | "error" (except branch taken)
    reply,                  \* what the endpoint or CLI loop answered last
    threads,                \* locals of the perform_search calls in flight
    memo,                   \* an earlier search, kept to compare a repeat with
    indexer,                \* locals and position of a running indexer
    npy_desc,               \* embeddings.npy on disk: the text behind each row
    chat_history,           \* global chat_history of chat.py, as a list of entries
    chat_calls,             \* the generate_for_api calls, each with its position
    generate                \* the last /generate request and what became of it

vars == <<module, pc, db_file, npy_rows, data, embeddings, user_query, top_k,
          parsed_query, encoded, similarities_positive, similarities_negative,
          final_scores, sorted_indices, results, outcome, reply, threads,
          memo, indexer, npy_desc, chat_history, chat_calls, generate>>

\* the variables of the other specifications, as seen from one of them
apiVars    == <<reply>>
concVars   == <<threads>>
repeatVars == <<memo>>
indexVars  == <<indexer, npy_desc>>
chatVars   == <<chat_history, chat_calls>>
imageVars  == <<generate>>

(***************************************************************************)
(* Bounds                                                                  *)
(***************************************************************************)
MaxWords == 3       \* words per generated query text
MaxRows  == 3       \* items in database.json / rows in embeddings.npy
MaxTopK  == 4       \* largest top_k argument tried
MaxCatalog == 7     \* catalog size of the large-catalog specification

(***************************************************************************)
(* Generic helpers                                                         *)
(***************************************************************************)
Min(S) == CHOOSE x \in S : \A y \in S : x <= y

Range(s) == {s[i] : i \in 1..Len(s)}

\* Python slice s[a:b] for 0 <= a, with 0-based bounds
Slice(s, a, b) == SubSeq(s, a + 1, b)

(***************************************************************************)
(* Query parser: get_structured_query                                      *)
(***************************************************************************)
UpperLetters == <<"A","B","C","D","E","F","G","H","I","J","K","L","M",
                  "N","O","P","Q","R","S","T","U","V","W","X","Y","Z">>
LowerLetters == <<"a","b","c","d","e","f","g","h","i","j","k","l","m",
                  "n","o","p","q","r","s","t","u","v","w","x","y","z">>

\* case folding used by re.IGNORECASE on the letters of the alphabet
LowerOf == [c \in Range(UpperLetters) |->
               LowerLetters[CHOOSE i \in 1..26 : UpperLetters[i] = c]]

\* re.IGNORECASE on a str pattern also lets the letter i of a trigger match
\* the dotted capital I (U+0130) and the dotless small i (U+0131); no other
\* letter of the triggers has such a form.  The two are written as the
\* names of their code points
Lower(c) == IF c \in DOMAIN LowerOf THEN LowerOf[c]
            ELSE IF c \in {"U+0130", "U+0131"} THEN "i"
            ELSE c

LowerText(s) == [i \in 1..Len(s) |-> Lower(s[i])]

\* the 29 characters for which str.isspace() holds, the ones str.strip()
\* removes.  An ASCII character is written as itself: blank, \t, \n, \r,
\* \f and the control characters VT (0x0b), FS (0x1c), GS (0x1d), RS (0x1e)
\* and US (0x1f).  Every other character is written as the name of its code
\* point, which stands for the one character: NEL (U+0085), the no-break
\* space (U+00A0), the ogham space mark (U+1680) and the spaces and
\* separators from U+2000 on.
Whitespace ==
    {" ", "\t", "\n", "\r", "\f", "", "", "", "", "",
     "U+0085", "U+00A0", "U+1680",
     "U+2000", "U+2001", "U+2002", "U+2003", "U+2004", "U+2005", "U+2006",
     "U+2007", "U+2008", "U+2009", "U+200A", "U+2028", "U+2029", "U+202F",
     "U+205F", "U+3000"}

negative_triggers == <<
    <<"b","u","t"," ","n","o","t">>,
    <<"w","i","t","h","o","u","t">>,
    <<"a","n","d"," ","n","o","t">>,
    <<"e","x","c","e","p","t">>,
    <<"d","o"," ","n","o","t"," ","h","a","v","e">>,
    <<"d","o","n","'","t"," ","h","a","v","e">>,
    <<"n","o","t"," ","i","n","c","l","u","d","i","n","g">>,
    <<"e","x","c","l","u","d","i","n","g">> >>

\* ' ' + '|'.join(triggers) + ' ' : the alternatives of the compiled
\* pattern.  Alternation binds weakest, so the leading blank belongs to the
\* first alternative only and the trailing blank to the last one only.
trigger_pattern ==
    [a \in 1..Len(negative_triggers) |->
        (IF a = 1 THEN <<" ">> ELSE <<>>)
        \o negative_triggers[a]
        \o (IF a = Len(negative_triggers) THEN <<" ">> ELSE <<>>)]

\* alternative alt matches text s at 1-based position p, ignoring case
MatchesAt(alt, s, p) ==
    /\ p + Len(alt) - 1 <= Len(s)
    /\ \A j \in 1..Len(alt) : Lower(s[p + j - 1]) = Lower(alt[j])

NoMatch == [start |-> -1, end |-> -1]

\* trigger_pattern.search(s): left-most position where an alternative
\* matches, first alternative in pattern order; 0-based start and end
Search(s) ==
    LET hits == {p \in 1..Len(s) :
                    \E a \in DOMAIN trigger_pattern :
                        MatchesAt(trigger_pattern[a], s, p)}
    IN  IF hits = {} THEN NoMatch
        ELSE LET p == Min(hits)
                 a == Min({b \in DOMAIN trigger_pattern :
                              MatchesAt(trigger_pattern[b], s, p)})
             IN  [start |-> p - 1, end |-> p - 1 + Len(trigger_pattern[a])]

\* str.strip()
Strip(s) ==
    LET keep == {i \in 1..Len(s) : s[i] \notin Whitespace}
    IN  IF keep = {} THEN <<>>
        ELSE SubSeq(s, Min(keep), CHOOSE i \in keep : \A j \in keep : j <= i)

get_structured_query(q) ==
    LET match == Search(q)
    IN  IF match = NoMatch
        THEN [positive_query |-> q, negative_query |-> <<>>]
        ELSE [positive_query |-> Strip(Slice(q, 0, match.start)),
              negative_query |-> Strip(Slice(q, match.end, Len(q)))]

NotParsed == [positive_query |-> <<"?">>, negative_query |-> <<"?">>]

(***************************************************************************)
(* Query texts tried by the parser specification: up to MaxWords words of  *)
(* the vocabulary joined by single blanks, optionally with a leading and a *)
(* trailing blank.                                                         *)
(***************************************************************************)
Vocabulary ==
    Range(negative_triggers) \cup
    { <<"B","U","T"," ","N","O","T">>,
      <<"m","o","d","e","r","n">>,
      <<"m","a","r","b","l","e">>,
      <<"a","n","d">>,
      <<"e","x","c","e","p","t","i","o","n","a","l">>,
      <<"w","i","t","h","o","u","t","a","b","c">> }

RECURSIVE Join(_)
Join(ws) ==
    IF Len(ws) = 0 THEN <<>>
    ELSE IF Len(ws) = 1 THEN ws[1]
    ELSE ws[1] \o <<" ">> \o Join(Tail(ws))

WordLists == UNION {[1..n -> Vocabulary] : n \in 0..MaxWords}

\* queries with whitespace other than the blank around their parts, and
\* with letters outside ASCII (U+00E9 is e with acute, not whitespace)
ControlQueries ==
    { <<"a"," ","b","u","t"," ","n","o","t"," ","b","\r">>,
      <<"\r","a"," ","e","x","c","e","p","t"," ","b">>,
      <<"a","\f"," ","b","u","t"," ","n","o","t"," ","\t","b","\n">>,
      <<"a","\r","w","i","t","h","o","u","t","\r","b">>,
      <<"\r","\f">>,
      <<"U+00A0","a"," ","b","u","t"," ","n","o","t"," ","b","U+0085">>,
      <<"a","U+00A0","b","u","t"," ","n","o","t","U+00A0","b">>,
      <<"a","U+2003"," ","e","x","c","e","p","t"," ","U+3000","b","U+1680">>,
      <<"a"," ","w","U+0130","t","h","o","u","t"," ","b">>,
      <<"c","a","f","U+00E9"," ","b","u","t"," ","n","o","t"," ",
        "t","h","U+00E9">>,
      <<"U+00A0","U+2028">> }

ParseQueries ==
    {(IF lead THEN <<" ">> ELSE <<>>) \o Join(ws) \o (IF trail THEN <<" ">> ELSE <<>>) :
        lead \in BOOLEAN, trail \in BOOLEAN, ws \in WordLists}
    \cup ControlQueries

(***************************************************************************)
(* Catalog store: load_resources                                           *)
(***************************************************************************)
\* database.json is a list of items; an item is modelled by its position in
\* the file (id) and whether it has the 'Generated Description' field (desc)
\* database.json on disk: missing, or a file that holds a JSON list of
\* items, text that json.load cannot decode, or the JSON value null
MissingFile == [exists |-> FALSE, json |-> "none", items |-> <<>>]

JsonList(items) == [exists |-> TRUE, json |-> "list", items |-> items]

Undecodable == [exists |-> TRUE, json |-> "undecodable", items |-> <<>>]

NullFile == [exists |-> TRUE, json |-> "null", items |-> <<>>]

\* an item of database.json: with or without 'Generated Description', its
\* 'Style' a text or null
Item(i, desc, style) == [id |-> i, desc |-> desc, style |-> style]

DbFiles ==
    {MissingFile, Undecodable, NullFile} \cup
    {JsonList([i \in 1..Len(f) |-> Item(i, f[i], "text")]) :
        f \in UNION {[1..n -> BOOLEAN] : n \in 0..MaxRows}}

\* [item for item in data if item.get('Generated Description') is not None]
HasDescription(item) == item.desc

\* src/design/search.py: the sentence transformer, json.load, np.load and
\* the count check, in this order inside one try; whatever raises ends the
\* process with the globals assigned so far (data = None is the unset
\* list).  Any count mismatch ends the process
load_resources_design ==
    \E loaded \in BOOLEAN :
    IF ~loaded \/ db_file.json \in {"none", "undecodable"}
    THEN /\ pc' = "exited"
         /\ UNCHANGED <<data, embeddings>>
    ELSE IF npy_rows < 0
    THEN /\ pc' = "exited"
         /\ data' = IF db_file.json = "list" THEN db_file.items ELSE data
         /\ UNCHANGED embeddings
    ELSE IF db_file.json = "null"
    THEN /\ pc' = "exited"
         /\ embeddings' = npy_rows
         /\ UNCHANGED data
    ELSE /\ data' = db_file.items
         /\ embeddings' = npy_rows
         /\ pc' = IF Len(db_file.items) # npy_rows THEN "exited" ELSE "serving"

\* src/search.py: filters when there are more items than rows, and only
\* prints a warning when the counts still differ
load_resources_root ==
    \E loaded \in BOOLEAN :
    IF ~loaded \/ db_file.json \in {"none", "undecodable"}
    THEN /\ pc' = "exited"
         /\ UNCHANGED <<data, embeddings>>
    ELSE IF npy_rows < 0
    THEN /\ pc' = "exited"
         /\ data' = IF db_file.json = "list" THEN db_file.items ELSE data
         /\ UNCHANGED embeddings
    ELSE IF db_file.json = "null"
    THEN /\ pc' = "exited"
         /\ embeddings' = npy_rows
         /\ UNCHANGED data
    ELSE /\ data' = IF Len(db_file.items) > npy_rows
                    THEN SelectSeq(db_file.items, HasDescription)
                    ELSE db_file.items
         /\ embeddings' = npy_rows
         /\ pc' = "serving"

load_resources ==
    /\ pc = "start"
    /\ IF module = "design" THEN load_resources_design ELSE load_resources_root
    /\ UNCHANGED <<module, db_file, npy_rows, user_query, top_k, parsed_query,
                   encoded, similarities_positive, similarities_negative,
                   final_scores, sorted_indices, results, outcome,
                   apiVars, concVars, repeatVars, indexVars,
                   chatVars, imageVars>>

(***************************************************************************)
(* Idle values of the variables that belong to one request or one run      *)
(***************************************************************************)
\* the endpoint or CLI loop has not answered anything
NoPayload == [json |-> "none", field |-> "absent", text |-> <<>>]

NoReply ==
    [via |-> "none", payload |-> NoPayload, status |-> 0, error |-> "",
     body |-> <<>>, searched |-> FALSE, unhandled |-> FALSE]

\* no earlier search is remembered
NoMemo == [kept |-> FALSE]

\* no indexer is running
NotIndexing == [pc |-> "none"]

\* no /generate endpoint is running
NoGenerate == [token |-> FALSE, uploads |-> <<>>]

(***************************************************************************)
(* Scoring and ranking: perform_search                                     *)
(***************************************************************************)
PenaltyWeight == 1      \* penalty_weight = 1.0
Threshold     == 5      \* score < 0.5
MaxResults    == 6      \* len(results) >= 6

\* cosine similarities the embedding provider can produce for an item
PosSims == {1, 4, 9}
NegSims == {0, 4}

\* variant of FinalScores that adds the penalty instead of subtracting it
FinalScoresAdded(sp, sn) == [i \in 1..Len(sp) |-> sp[i] + (sn[i] * PenaltyWeight)]

\* similarities_positive - (similarities_negative * penalty_weight)
FinalScores(sp, sn) == [i \in 1..Len(sp) |-> sp[i] - (sn[i] * PenaltyWeight)]

\* the orders of the index set S that are ascending in scores
RECURSIVE SortedOrders(_, _)
SortedOrders(scores, S) ==
    IF S = {} THEN {<<>>}
    ELSE LET low == Min({scores[i] : i \in S})
         IN  UNION {{<<i>> \o o : o \in SortedOrders(scores, S \ {i})} :
                        i \in {j \in S : scores[j] = low}}

\* np.argsort(final_scores): ascending; the default kind is not stable, so
\* equal scores may come out in any order
Argsort(scores) == SortedOrders(scores, DOMAIN scores)

\* a[::-1]
Reverse(a) == [i \in 1..Len(a) |-> a[Len(a) + 1 - i]]

\* variant of LastK that slices from the front, a[:k]
FirstK(a, k) ==
    IF k = 0 \/ k >= Len(a) THEN a ELSE SubSeq(a, 1, k)

\* a[-k:] for k >= 0 (-0 is 0, so k = 0 selects the whole array)
LastK(a, k) ==
    IF k = 0 \/ k >= Len(a) THEN a ELSE SubSeq(a, Len(a) - k + 1, Len(a))

\* variant of FixedKResults that reads the score at the output position
FixedKResultsScoreAtRank(order, k, scores, items) ==
    LET top_k_indices == Reverse(LastK(order, k))
    IN  [r \in 1..Len(top_k_indices) |->
            [idx   |-> top_k_indices[r],
             item  |-> items[top_k_indices[r]],
             score |-> scores[r],
             rank  |-> r]]

\* src/design/search.py, steps 4 and 5: np.argsort(...)[-top_k:][::-1], then
\* one result per index, ranks counted from 1
FixedKResults(order, k, scores, items) ==
    LET top_k_indices == Reverse(LastK(order, k))
    IN  [r \in 1..Len(top_k_indices) |->
            [idx   |-> top_k_indices[r],
             item  |-> items[top_k_indices[r]],
             score |-> scores[top_k_indices[r]],
             rank  |-> r]]

\* variant of ThresholdScan that tests score <= threshold
RECURSIVE ThresholdScanInclusive(_, _, _, _)
ThresholdScanInclusive(indices, scores, items, acc) ==
    IF indices = <<>> \/ Len(acc) >= MaxResults THEN acc
    ELSE LET idx == Head(indices)
         IN  IF scores[idx] <= Threshold /\ idx <= Len(items)
             THEN ThresholdScanInclusive(Tail(indices), scores, items,
                      Append(acc, [idx   |-> idx,
                                   item  |-> items[idx],
                                   score |-> scores[idx],
                                   rank  |-> Len(acc) + 1]))
             ELSE ThresholdScanInclusive(Tail(indices), scores, items, acc)

\* src/search.py, step 5: scan in descending order, keep scores below the
\* threshold whose index has an item, stop at MaxResults results
RECURSIVE ThresholdScan(_, _, _, _)
ThresholdScan(indices, scores, items, acc) ==
    IF indices = <<>> \/ Len(acc) >= MaxResults THEN acc
    ELSE LET idx == Head(indices)
         IN  IF scores[idx] < Threshold /\ idx <= Len(items)
             THEN ThresholdScan(Tail(indices), scores, items,
                      Append(acc, [idx   |-> idx,
                                   item  |-> items[idx],
                                   score |-> scores[idx],
                                   rank  |-> Len(acc) + 1]))
             ELSE ThresholdScan(Tail(indices), scores, items, acc)

ThresholdResults(order, scores, items) ==
    ThresholdScan(Reverse(order), scores, items, <<>>)

\* variant of ItemsAfterResults for item_data['rank'] = ...: the item records
\* of the global list are written
ItemsWithRankWritten(items, indices) ==
    [i \in 1..Len(items) |->
        IF \E r \in 1..Len(indices) : indices[r] = i
        THEN [id |-> items[i].id, desc |-> items[i].desc,
              style |-> items[i].style, rank |-> 1]
        ELSE items[i]]

\* variant of ItemsAfterResults for results.append(data.pop(idx)): the items
\* a search visits are taken out of the global list, so a later search finds
\* a shorter catalog
ItemsWithVisitedRemoved(items, indices) ==
    LET keep == {i \in 1..Len(items) :
                    \A r \in 1..Len(indices) : indices[r] # i}
    IN  [j \in 1..Cardinality(keep) |->
            items[CHOOSE i \in keep :
                      Cardinality({x \in keep : x < i}) = j - 1]]

\* step 5 builds a new dict {**item_data, 'score': ..., 'rank': ...} for every
\* index it visits; the items of the global list are read, never written
ItemsAfterResults(items, indices) == items

\* query texts used by the search actions
SearchQueries ==
    { <<"m","o","d","e","r","n">>,
      <<"m","o","d","e","r","n"," ","b","u","t"," ","n","o","t"," ",
        "m","a","r","b","l","e">>,
      <<"m","o","d","e","r","n"," ","b","u","t"," ","n","o","t"," ">>,
      <<"e","x","c","e","p","t","i","o","n","a","l">> }

\* 0: every model.encode call returns; n: the n-th call of the search raises
EncodeFailures == 0..2

\* the except branch of perform_search: print the error, return []
SearchError(q, k, parsed, texts) ==
    /\ user_query' = q
    /\ top_k' = k
    /\ parsed_query' = parsed
    /\ encoded' = texts
    /\ similarities_positive' = <<>>
    /\ similarities_negative' = <<>>
    /\ final_scores' = <<>>
    /\ sorted_indices' = <<>>
    /\ results' = <<>>
    /\ outcome' = "error"
    /\ UNCHANGED <<data, embeddings>>

\* src/design/search.py perform_search(user_query, top_k)
perform_search_design(q, k, fail, Pos, Neg) ==
    \E parsed \in {get_structured_query(q)} :
    LET pos   == parsed.positive_query
        neg   == parsed.negative_query
        texts == IF neg # <<>> THEN <<pos, neg>> ELSE <<pos>>
    IN  IF fail = 1 \/ embeddings = 0
        THEN SearchError(q, k, parsed, <<pos>>)
        ELSE IF fail = 2
        THEN SearchError(q, k, parsed, <<pos, neg>>)
        ELSE \E sp \in [1..embeddings -> Pos] :
             \E sn \in (IF neg # <<>> THEN [1..embeddings -> Neg] ELSE {<<>>}) :
             \E scores \in {IF neg # <<>> THEN FinalScores(sp, sn) ELSE sp} :
             \E order \in Argsort(scores) :
                IF \E i \in 1..Len(LastK(order, k)) :
                       LastK(order, k)[i] > Len(data)
                THEN SearchError(q, k, parsed, texts)
                ELSE /\ user_query' = q
                     /\ top_k' = k
                     /\ parsed_query' = parsed
                     /\ encoded' = texts
                     /\ similarities_positive' = sp
                     /\ similarities_negative' = sn
                     /\ final_scores' = scores
                     /\ sorted_indices' = order
                     /\ results' = FixedKResults(order, k, scores, data)
                     /\ outcome' = "ok"
                     /\ data' = ItemsAfterResults(data, Reverse(LastK(order, k)))
                     /\ UNCHANGED embeddings

\* src/search.py perform_search(user_query)
perform_search_root(q, fail, Pos, Neg) ==
    \E parsed \in {get_structured_query(q)} :
    LET pos   == parsed.positive_query
        neg   == parsed.negative_query
        texts == IF neg # <<>> THEN <<pos, neg>> ELSE <<pos>>
    IN  IF fail = 1 \/ embeddings = 0
        THEN SearchError(q, -1, parsed, <<pos>>)
        ELSE IF fail = 2
        THEN SearchError(q, -1, parsed, <<pos, neg>>)
        ELSE \E sp \in [1..embeddings -> Pos] :
             \E sn \in (IF neg # <<>> THEN [1..embeddings -> Neg] ELSE {<<>>}) :
             \E scores \in {IF neg # <<>> THEN FinalScores(sp, sn) ELSE sp} :
             \E order \in Argsort(scores) :
                /\ user_query' = q
                /\ top_k' = -1
                /\ parsed_query' = parsed
                /\ encoded' = texts
                /\ similarities_positive' = sp
                /\ similarities_negative' = sn
                /\ final_scores' = scores
                /\ sorted_indices' = order
                /\ results' = ThresholdResults(order, scores, data)
                /\ outcome' = "ok"
                /\ data' = ItemsAfterResults(data, Reverse(order))
                /\ UNCHANGED embeddings

SearchDesign ==
    /\ pc = "serving"
    /\ module = "design"
    /\ \E q \in SearchQueries, k \in 0..MaxTopK, fail \in EncodeFailures :
        /\ fail = 2 => get_structured_query(q).negative_query # <<>>
        /\ perform_search_design(q, k, fail, PosSims, NegSims)
    /\ pc' = "returned"
    /\ UNCHANGED <<module, db_file, npy_rows, apiVars, concVars, repeatVars,
                   indexVars,
                   chatVars, imageVars>>

SearchRoot ==
    /\ pc = "serving"
    /\ module = "root"
    /\ \E q \in SearchQueries, fail \in EncodeFailures :
        /\ fail = 2 => get_structured_query(q).negative_query # <<>>
        /\ perform_search_root(q, fail, PosSims, NegSims)
    /\ pc' = "returned"
    /\ UNCHANGED <<module, db_file, npy_rows, apiVars, concVars, repeatVars,
                   indexVars,
                   chatVars, imageVars>>

\* the caller has taken the returned list; the locals of the call are gone
\* and the process waits for the next query
NextRequest ==
    /\ pc = "returned"
    /\ pc' = "serving"
    /\ user_query' = <<>>
    /\ top_k' = -1
    /\ parsed_query' = NotParsed
    /\ encoded' = <<>>
    /\ similarities_positive' = <<>>
    /\ similarities_negative' = <<>>
    /\ final_scores' = <<>>
    /\ sorted_indices' = <<>>
    /\ results' = <<>>
    /\ outcome' = "none"
    /\ reply' = NoReply
    /\ UNCHANGED <<module, db_file, npy_rows, data, embeddings, concVars,
                   repeatVars, indexVars,
                   chatVars, imageVars>>

(***************************************************************************)
(* Serving specification: one process loads its catalog, then serves       *)
(* searches                                                                *)
(***************************************************************************)
Init ==
    /\ module \in {"design", "root"}
    /\ pc = "start"
    /\ db_file \in DbFiles
    /\ npy_rows \in -2..MaxRows
    /\ data = <<>>
    /\ embeddings = 0
    /\ user_query = <<>>
    /\ top_k = -1
    /\ parsed_query = NotParsed
    /\ encoded = <<>>
    /\ similarities_positive = <<>>
    /\ similarities_negative = <<>>
    /\ final_scores = <<>>
    /\ sorted_indices = <<>>
    /\ results = <<>>
    /\ outcome = "none"
    /\ reply = NoReply
    /\ threads = <<>>
    /\ memo = NoMemo
    /\ chat_history = <<>>
    /\ chat_calls = <<>>
    /\ generate = NoGenerate
    /\ indexer = NotIndexing
    /\ npy_desc = <<>>

Next == load_resources \/ SearchDesign \/ SearchRoot \/ NextRequest

Spec == Init /\ [][Next]_vars

(***************************************************************************)
(* Parser specification: the parser applied to every generated text        *)
(***************************************************************************)
InitParse ==
    /\ module = "root"
    /\ pc = "parser"
    /\ db_file = MissingFile
    /\ npy_rows = -1
    /\ data = <<>>
    /\ embeddings = 0
    /\ user_query \in ParseQueries
    /\ top_k = -1
    /\ parsed_query = NotParsed
    /\ encoded = <<>>
    /\ similarities_positive = <<>>
    /\ similarities_negative = <<>>
    /\ final_scores = <<>>
    /\ sorted_indices = <<>>
    /\ results = <<>>
    /\ outcome = "none"
    /\ reply = NoReply
    /\ threads = <<>>
    /\ memo = NoMemo
    /\ chat_history = <<>>
    /\ chat_calls = <<>>
    /\ generate = NoGenerate
    /\ indexer = NotIndexing
    /\ npy_desc = <<>>

ParseQuery ==
    /\ pc = "parser"
    /\ parsed_query = NotParsed
    /\ parsed_query' = get_structured_query(user_query)
    /\ UNCHANGED <<module, pc, db_file, npy_rows, data, embeddings, user_query,
                   top_k, encoded, similarities_positive, similarities_negative,
                   final_scores, sorted_indices, results, outcome,
                   apiVars, concVars, repeatVars, indexVars,
                   chatVars, imageVars>>

NextParse == ParseQuery

SpecParse == InitParse /\ [][NextParse]_vars

(***************************************************************************)
(* Large-catalog specification: src/search.py serving a catalog that is    *)
(* larger than the result cap, queries without a negative clause           *)
(***************************************************************************)
LargeSims == {1, 4, 5}

LargeFile ==
    JsonList([i \in 1..MaxCatalog |-> Item(i, TRUE, "text")])

InitLarge ==
    /\ module = "root"
    /\ pc = "start"
    /\ db_file = LargeFile
    /\ npy_rows = MaxCatalog
    /\ data = <<>>
    /\ embeddings = 0
    /\ user_query = <<>>
    /\ top_k = -1
    /\ parsed_query = NotParsed
    /\ encoded = <<>>
    /\ similarities_positive = <<>>
    /\ similarities_negative = <<>>
    /\ final_scores = <<>>
    /\ sorted_indices = <<>>
    /\ results = <<>>
    /\ outcome = "none"
    /\ reply = NoReply
    /\ threads = <<>>
    /\ memo = NoMemo
    /\ chat_history = <<>>
    /\ chat_calls = <<>>
    /\ generate = NoGenerate
    /\ indexer = NotIndexing
    /\ npy_desc = <<>>

SearchRootLarge ==
    /\ pc = "serving"
    /\ module = "root"
    /\ \E fail \in 0..1 :
        perform_search_root(<<"m","o","d","e","r","n">>, fail, LargeSims, {})
    /\ pc' = "returned"
    /\ UNCHANGED <<module, db_file, npy_rows, apiVars, concVars, repeatVars,
                   indexVars,
                   chatVars, imageVars>>

NextLarge == load_resources \/ SearchRootLarge \/ NextRequest

SpecLarge == InitLarge /\ [][NextLarge]_vars

(***************************************************************************)
(* Callers of perform_search: search_endpoint of the two Flask apps and    *)
(* main_cli_loop of the two search modules                                 *)
(***************************************************************************)
TopKServed    == 12     \* search_engine.perform_search(query, top_k=12)
CliThreshold  == 5      \* r['score'] < 0.5
CliMaxResults == 6      \* [...][:6]

\* texts sent as the query field or typed at the prompt
ApiTexts ==
    { <<>>,
      <<" ">>,
      <<" ", "\t">>,
      <<"\r">>,
      <<" ", "\r", "\n">>,
      <<"U+00A0">>,
      <<"U+0085", " ", "U+00A0">>,
      <<"U+2003", " ">>,
      <<"U+00E9">>,
      <<"m","o","d","e","r","n">>,
      <<"m","o","d","e","r","n"," ","b","u","t"," ","n","o","t"," ",
        "m","a","r","b","l","e">> }

\* request bodies, by what request.get_json() and data.get("query", "")
\* make of them: not JSON at all, JSON that is not an object, an object
\* without the field, an object whose field is a number or null, an object
\* whose field is a string
Payloads ==
    { [json |-> "invalid", field |-> "absent", text |-> <<>>],
      [json |-> "array",   field |-> "absent", text |-> <<>>],
      [json |-> "object",  field |-> "absent", text |-> <<>>],
      [json |-> "object",  field |-> "number", text |-> <<>>],
      [json |-> "object",  field |-> "null",   text |-> <<>>] }
    \cup {[json |-> "object", field |-> "string", text |-> t] : t \in ApiTexts}

\* lines typed at the prompt of main_cli_loop
CliInputs ==
    {[json |-> "stdin", field |-> "string", text |-> t] :
        t \in ApiTexts \cup {<<"q">>, <<"Q">>}}

\* variant of IsEmptyQuery that does not trim: not query
IsEmptyString(query) == query = <<>>

\* not query.strip()
IsEmptyQuery(query) == Strip(query) = <<>>

\* the handler returns without calling perform_search
NoSearch ==
    UNCHANGED <<data, embeddings, user_query, top_k, parsed_query, encoded,
                similarities_positive, similarities_negative, final_scores,
                sorted_indices, results, outcome>>

\* return jsonify({"error": message}), status
Refuse(p, status, message) ==
    /\ reply' = [via |-> "http", payload |-> p, status |-> status,
                 error |-> message, body |-> <<>>, searched |-> FALSE,
                 unhandled |-> FALSE]
    /\ pc' = "returned"
    /\ NoSearch

\* query.strip() stands outside every try block: for a query that is not a
\* str it raises AttributeError out of the handler, and Flask answers 500
RaiseOutOfHandler(p) ==
    /\ reply' = [via |-> "http", payload |-> p, status |-> 500,
                 error |-> "Internal Server Error", body |-> <<>>,
                 searched |-> FALSE, unhandled |-> TRUE]
    /\ pc' = "returned"
    /\ NoSearch

\* return jsonify(results)
Answer(p, via, body) ==
    /\ reply' = [via |-> via, payload |-> p, status |-> 200, error |-> "",
                 body |-> body, searched |-> TRUE, unhandled |-> FALSE]
    /\ pc' = "returned"

\* src/design/app.py search_endpoint
search_endpoint_design(p, fail) ==
    IF p.json # "object"
    THEN Refuse(p, 400, "Invalid JSON payload")
    ELSE IF p.field \in {"number", "null"}
    THEN RaiseOutOfHandler(p)
    ELSE IF IsEmptyQuery(p.text)
    THEN Refuse(p, 400, "Empty query")
    ELSE /\ perform_search_design(p.text, TopKServed, fail, PosSims, NegSims)
         /\ Answer(p, "http", results')

\* style = r.get("Style", "").lower() stands outside every try block: for a
\* result whose 'Style' is null it raises AttributeError out of the handler
FormatRaises(res) == \E r \in 1..Len(res) : res[r].item.style = "null"

\* Flask answers 500 for the exception; perform_search has run
RaiseAfterSearch(p) ==
    /\ reply' = [via |-> "http", payload |-> p, status |-> 500,
                 error |-> "Internal Server Error", body |-> <<>>,
                 searched |-> TRUE, unhandled |-> TRUE]
    /\ pc' = "returned"

\* the fields of a result that src/app.py puts into its answer
Formatted(res) ==
    [r \in 1..Len(res) |->
        [rank |-> res[r].rank, item |-> res[r].item.id, score |-> res[r].score]]

\* src/app.py search_endpoint
search_endpoint_root(p, fail) ==
    IF p.json # "object"
    THEN Refuse(p, 400, "Invalid JSON payload")
    ELSE IF p.field \in {"number", "null"}
    THEN RaiseOutOfHandler(p)
    ELSE IF IsEmptyQuery(p.text)
    THEN Refuse(p, 400, "Empty query")
    ELSE /\ perform_search_root(p.text, fail, PosSims, NegSims)
         /\ IF FormatRaises(results')
            THEN RaiseAfterSearch(p)
            ELSE Answer(p, "http", Formatted(results'))

\* the CLI loop read a line and went back to the prompt, or left the loop
CliNoSearch(p, next) ==
    /\ reply' = [via |-> "cli", payload |-> p, status |-> 0, error |-> "",
                 body |-> <<>>, searched |-> FALSE, unhandled |-> FALSE]
    /\ pc' = next
    /\ NoSearch

\* [r for r in all_results if r['score'] < 0.5][:6]
BelowCliThreshold(r) == r.score < CliThreshold

FilteredResults(all_results) ==
    LET below == SelectSeq(all_results, BelowCliThreshold)
    IN  IF Len(below) > CliMaxResults THEN SubSeq(below, 1, CliMaxResults)
        ELSE below

\* src/design/search.py main_cli_loop, one turn of the loop
main_cli_loop_design(p, fail) ==
    IF LowerText(p.text) = <<"q">>
    THEN CliNoSearch(p, "exited")
    ELSE IF IsEmptyQuery(p.text)
    THEN CliNoSearch(p, "returned")
    ELSE /\ perform_search_design(p.text, Len(data), fail, PosSims, NegSims)
         /\ Answer(p, "cli", FilteredResults(results'))

\* src/search.py main_cli_loop, one turn of the loop
main_cli_loop_root(p, fail) ==
    IF LowerText(p.text) = <<"q">>
    THEN CliNoSearch(p, "exited")
    ELSE IF IsEmptyQuery(p.text)
    THEN CliNoSearch(p, "returned")
    ELSE /\ perform_search_root(p.text, fail, PosSims, NegSims)
         /\ Answer(p, "cli", results')

\* an encode failure can only be drawn for a request that reaches the call
Reaches(p, fail) ==
    /\ fail >= 1 => (p.json \in {"object", "stdin"} /\ p.field = "string"
                                                    /\ ~IsEmptyQuery(p.text))
    /\ fail = 2 => get_structured_query(p.text).negative_query # <<>>

ApiDesign ==
    /\ pc = "serving"
    /\ module = "design"
    /\ \E p \in Payloads, fail \in EncodeFailures :
        Reaches(p, fail) /\ search_endpoint_design(p, fail)
    /\ UNCHANGED <<module, db_file, npy_rows, concVars, repeatVars, indexVars,
                   chatVars, imageVars>>

ApiRoot ==
    /\ pc = "serving"
    /\ module = "root"
    /\ \E p \in Payloads, fail \in EncodeFailures :
        Reaches(p, fail) /\ search_endpoint_root(p, fail)
    /\ UNCHANGED <<module, db_file, npy_rows, concVars, repeatVars, indexVars,
                   chatVars, imageVars>>

CliDesign ==
    /\ pc = "serving"
    /\ module = "design"
    /\ \E p \in CliInputs, fail \in EncodeFailures :
        Reaches(p, fail) /\ main_cli_loop_design(p, fail)
    /\ UNCHANGED <<module, db_file, npy_rows, concVars, repeatVars, indexVars,
                   chatVars, imageVars>>

CliRoot ==
    /\ pc = "serving"
    /\ module = "root"
    /\ \E p \in CliInputs, fail \in EncodeFailures :
        Reaches(p, fail) /\ main_cli_loop_root(p, fail)
    /\ UNCHANGED <<module, db_file, npy_rows, concVars, repeatVars, indexVars,
                   chatVars, imageVars>>

\* the catalogs of the API runs: those of DbFiles, and the fully described
\* ones in which some 'Style' is null
StyleKinds == {"text", "null"}

ApiFiles ==
    DbFiles \cup
    {JsonList([i \in 1..Len(f) |-> Item(i, TRUE, f[i])]) :
        f \in UNION {[1..n -> StyleKinds] : n \in 0..MaxRows}}

InitApi ==
    /\ module \in {"design", "root"}
    /\ pc = "start"
    /\ db_file \in ApiFiles
    /\ npy_rows \in -2..MaxRows
    /\ data = <<>>
    /\ embeddings = 0
    /\ user_query = <<>>
    /\ top_k = -1
    /\ parsed_query = NotParsed
    /\ encoded = <<>>
    /\ similarities_positive = <<>>
    /\ similarities_negative = <<>>
    /\ final_scores = <<>>
    /\ sorted_indices = <<>>
    /\ results = <<>>
    /\ outcome = "none"
    /\ reply = NoReply
    /\ threads = <<>>
    /\ memo = NoMemo
    /\ chat_history = <<>>
    /\ chat_calls = <<>>
    /\ generate = NoGenerate
    /\ indexer = NotIndexing
    /\ npy_desc = <<>>

NextApi ==
    load_resources \/ ApiDesign \/ ApiRoot \/ CliDesign \/ CliRoot \/ NextRequest

SpecApi == InitApi /\ [][NextApi]_vars

(***************************************************************************)
(* Concurrent specification: the Flask app runs search_endpoint in one     *)
(* thread per request, so several perform_search calls are in flight at    *)
(* once.  A call is cut into the pieces between which another thread can   *)
(* run; every piece reads the globals data and embeddings and its own      *)
(* locals.                                                                 *)
(***************************************************************************)
MaxThreads == 2     \* perform_search calls in flight together

\* similarity vectors the embedding provider returns in this specification
ConcPosSims == {<<4, 9>>, <<9, 4>>, <<4, 4>>}
ConcNegSims == {<<0, 4>>, <<4, 0>>}

ConcRows == Len(CHOOSE v \in ConcPosSims : TRUE)

ConcFile ==
    JsonList([i \in 1..ConcRows |-> Item(i, TRUE, "text")])

ConcQueries ==
    { <<"m","o","d","e","r","n">>,
      <<"m","o","d","e","r","n"," ","b","u","t"," ","n","o","t"," ",
        "m","a","r","b","l","e">> }

\* what a call was given from outside: its argument, which model.encode
\* call raised for it (0 none, 1 the positive clause, 2 the negative
\* clause), the vectors cosine_similarity produced for it, the order
\* np.argsort produced for it, and whether another call was in flight when
\* it built its results
NoCall ==
    [q |-> <<>>, fail |-> 0, sp |-> <<>>, sn |-> <<>>, order |-> <<>>,
     overlapped |-> FALSE]

\* the local variables of perform_search
NoLocals ==
    [user_query |-> <<>>, top_k |-> -1, parsed_query |-> NotParsed,
     similarities_positive |-> <<>>, similarities_negative |-> <<>>,
     final_scores |-> <<>>, sorted |-> <<>>, results |-> <<>>]

IdleThread == [at |-> "idle", call |-> NoCall, loc |-> NoLocals]

InFlight(th) == th.at \notin {"idle", "done"}

\* variant of StoreLocal in which the variables of perform_search are module
\* globals: an assignment is seen by every call in flight
StoreGlobal(ths, t, loc) ==
    [u \in DOMAIN ths |->
        IF u = t \/ InFlight(ths[u]) THEN [ths[u] EXCEPT !.loc = loc]
        ELSE ths[u]]

\* assignment to local variables of call t
StoreLocal(ths, t, loc) == [ths EXCEPT ![t].loc = loc]

\* a call in flight writes nothing but its own locals
ThreadFrame ==
    /\ pc = "serving"
    /\ UNCHANGED <<module, pc, db_file, npy_rows, data, embeddings, user_query,
                   top_k, parsed_query, encoded, similarities_positive,
                   similarities_negative, final_scores, sorted_indices,
                   results, outcome, apiVars, repeatVars, indexVars,
                   chatVars, imageVars>>

\* perform_search is entered and the query is parsed
ThreadCall(t) ==
    /\ ThreadFrame
    /\ threads[t].at = "idle"
    /\ \E q \in ConcQueries :
        threads' =
            StoreLocal([threads EXCEPT ![t].at = "parsed",
                                       ![t].call.q = q],
                       t,
                       [NoLocals EXCEPT
                           !.user_query = q,
                           !.top_k = IF module = "design" THEN TopKServed
                                     ELSE -1,
                           !.parsed_query = get_structured_query(q)])

\* model.encode(positive_query_text) and cosine_similarity, or the except
\* branch (return []) when the provider raises
ThreadPositive(t) ==
    /\ ThreadFrame
    /\ threads[t].at = "parsed"
    /\ \E fail \in EncodeFailures \ {2} :
       IF fail = 1
       THEN threads' =
                StoreLocal([threads EXCEPT ![t].at = "done",
                                           ![t].call.fail = 1], t,
                           [threads[t].loc EXCEPT !.results = <<>>])
       ELSE \E sp \in ConcPosSims :
               /\ Len(sp) = embeddings
               /\ threads' =
                    StoreLocal([threads EXCEPT ![t].at = "positive",
                                               ![t].call.sp = sp],
                               t,
                               [threads[t].loc EXCEPT
                                   !.similarities_positive = sp])

\* the negative clause, if any: model.encode(negative_query_text) and
\* cosine_similarity, or the except branch (return []) when the provider
\* raises; then final_scores
ThreadScores(t) ==
    /\ ThreadFrame
    /\ threads[t].at = "positive"
    /\ LET loc == threads[t].loc
       IN  IF loc.parsed_query.negative_query # <<>>
           THEN \E fail \in EncodeFailures \ {1} :
                IF fail = 2
                THEN threads' =
                         StoreLocal([threads EXCEPT ![t].at = "done",
                                                    ![t].call.fail = 2], t,
                                    [loc EXCEPT !.results = <<>>])
                ELSE
                \E sn \in ConcNegSims :
                   /\ Len(sn) = embeddings
                   /\ threads' =
                        StoreLocal([threads EXCEPT ![t].at = "scored",
                                                   ![t].call.sn = sn],
                                   t,
                                   [loc EXCEPT
                                       !.similarities_negative = sn,
                                       !.final_scores =
                                           FinalScores(
                                               loc.similarities_positive, sn)])
           ELSE threads' =
                    StoreLocal([threads EXCEPT ![t].at = "scored"], t,
                               [loc EXCEPT
                                   !.final_scores = loc.similarities_positive])

\* np.argsort(final_scores)
ThreadSort(t) ==
    /\ ThreadFrame
    /\ threads[t].at = "scored"
    /\ \E order \in Argsort(threads[t].loc.final_scores) :
        threads' =
            StoreLocal([threads EXCEPT ![t].at = "sorted",
                                       ![t].call.order = order],
                       t,
                       [threads[t].loc EXCEPT !.sorted = order])

\* step 5: the results are built from the locals and the global data; in
\* src/design/search.py an index past the end of data raises and the except
\* branch returns []
ThreadFormat(t) ==
    /\ ThreadFrame
    /\ threads[t].at = "sorted"
    /\ LET loc == threads[t].loc
           top == LastK(loc.sorted, loc.top_k)
           res == IF module = "design"
                  THEN IF \E i \in 1..Len(top) : top[i] > Len(data)
                       THEN <<>>
                       ELSE FixedKResults(loc.sorted, loc.top_k,
                                          loc.final_scores, data)
                  ELSE ThresholdResults(loc.sorted, loc.final_scores, data)
       IN  threads' =
               StoreLocal([threads EXCEPT
                              ![t].at = "done",
                              ![t].call.overlapped =
                                  \E u \in DOMAIN threads :
                                      u # t /\ InFlight(threads[u])],
                          t,
                          [loc EXCEPT !.results = res])

InitConc ==
    /\ module \in {"design", "root"}
    /\ pc = "start"
    /\ db_file = ConcFile
    /\ npy_rows = ConcRows
    /\ data = <<>>
    /\ embeddings = 0
    /\ user_query = <<>>
    /\ top_k = -1
    /\ parsed_query = NotParsed
    /\ encoded = <<>>
    /\ similarities_positive = <<>>
    /\ similarities_negative = <<>>
    /\ final_scores = <<>>
    /\ sorted_indices = <<>>
    /\ results = <<>>
    /\ outcome = "none"
    /\ reply = NoReply
    /\ threads = [t \in 1..MaxThreads |-> IdleThread]
    /\ memo = NoMemo
    /\ chat_history = <<>>
    /\ chat_calls = <<>>
    /\ generate = NoGenerate
    /\ indexer = NotIndexing
    /\ npy_desc = <<>>

NextConc ==
    \/ load_resources
    \/ \E t \in 1..MaxThreads :
          \/ ThreadCall(t)
          \/ ThreadPositive(t)
          \/ ThreadScores(t)
          \/ ThreadSort(t)
          \/ ThreadFormat(t)

SpecConc == InitConc /\ [][NextConc]_vars

(***************************************************************************)
(* Repeat specification: one process serves searches one after another and *)
(* remembers its first successful search.  The embedding provider is       *)
(* deterministic: the same text gets the same vectors again.  np.argsort   *)
(* is a function of its argument: which order it gives to equal scores is  *)
(* not specified (Argsort), but the same array gets the same order again.  *)
(***************************************************************************)
RepeatPos == {4, 9}
RepeatNeg == {0, 4}

\* top_k arguments: those of the callers of perform_search
RepeatTopK == IF module = "design" THEN {1, TopKServed} ELSE {-1}

\* the (catalog index, score, rank) of every result
Triples(res) ==
    [r \in 1..Len(res) |->
        [idx |-> res[r].idx, score |-> res[r].score, rank |-> res[r].rank]]

\* the deterministic provider: the texts of query m.q get the vectors they
\* got before
SameVectorsAsBefore(m, q, sp, sn) ==
    (m.kept /\ q = m.q) => (sp = m.sp /\ sn = m.sn)

\* np.argsort applied to the array it was applied to before
SameSortAsBefore(m, scores, order) ==
    (m.kept /\ scores = m.scores) => order = m.order

\* what is remembered after a search that returned: the first successful
\* search itself, then whether another query was searched since (between),
\* whether a search failed since (failed) and whether the search that just
\* returned repeats the first (repeated)
Remember(m) ==
    IF ~m.kept
    THEN IF outcome' = "ok"
         THEN [kept |-> TRUE, q |-> user_query', k |-> top_k',
               sp |-> similarities_positive', sn |-> similarities_negative',
               scores |-> final_scores', order |-> sorted_indices',
               triples |-> Triples(results'),
               between |-> FALSE, failed |-> FALSE, repeated |-> FALSE]
         ELSE m
    ELSE [m EXCEPT !.between = m.between \/ user_query' # m.q,
                   !.failed = m.failed \/ outcome' = "error",
                   !.repeated = user_query' = m.q /\ top_k' = m.k]

RepeatSearch ==
    /\ pc = "serving"
    /\ \E q \in ConcQueries, k \in RepeatTopK, fail \in EncodeFailures :
        /\ fail = 2 => get_structured_query(q).negative_query # <<>>
        /\ (memo.kept /\ q = memo.q) => fail = 0
        /\ IF module = "design"
           THEN perform_search_design(q, k, fail, RepeatPos, RepeatNeg)
           ELSE perform_search_root(q, fail, RepeatPos, RepeatNeg)
        /\ SameVectorsAsBefore(memo, q, similarities_positive',
                               similarities_negative')
        /\ SameSortAsBefore(memo, final_scores', sorted_indices')
    /\ memo' = Remember(memo)
    /\ pc' = "returned"
    /\ UNCHANGED <<module, db_file, npy_rows, apiVars, concVars, indexVars,
                   chatVars, imageVars>>

InitRepeat ==
    /\ module \in {"design", "root"}
    /\ pc = "start"
    /\ db_file = ConcFile
    /\ npy_rows = ConcRows
    /\ data = <<>>
    /\ embeddings = 0
    /\ user_query = <<>>
    /\ top_k = -1
    /\ parsed_query = NotParsed
    /\ encoded = <<>>
    /\ similarities_positive = <<>>
    /\ similarities_negative = <<>>
    /\ final_scores = <<>>
    /\ sorted_indices = <<>>
    /\ results = <<>>
    /\ outcome = "none"
    /\ reply = NoReply
    /\ threads = <<>>
    /\ memo = NoMemo
    /\ chat_history = <<>>
    /\ chat_calls = <<>>
    /\ generate = NoGenerate
    /\ indexer = NotIndexing
    /\ npy_desc = <<>>

NextRepeat == load_resources \/ RepeatSearch \/ NextRequest

SpecRepeat == InitRepeat /\ [][NextRepeat]_vars

(***************************************************************************)
(* Indexers: src/design/index.py main ("design") builds database.json and  *)
(* embeddings.npy from the Excel sheet; src/indexer.py main ("root")       *)
(* corrects the paths in database.json and builds embeddings.npy from it.  *)
(* A row of embeddings.npy is modelled by the text it embeds: whose        *)
(* description it is, or the empty string.                                 *)
(***************************************************************************)
MaxIndexRows == 2   \* rows of the Excel sheet / items of database.json

\* rows of the Excel sheet: complete, or lacking a style, a file name or a
\* description, or naming an image that is not on disk, or with a Style
\* cell that is a number (item_style.lower() raises inside the try block)
RowKinds ==
    {"ok", "no_style", "no_file_name", "no_desc", "no_image", "style_not_text"}

ExcelRow(i, kind) ==
    [id |-> i, run |-> "this",
     style |-> kind # "no_style", style_is_text |-> kind # "style_not_text",
     file_name |-> kind # "no_file_name", desc |-> kind # "no_desc",
     image |-> kind # "no_image", checked |-> FALSE]

ExcelSheets ==
    {[i \in 1..Len(k) |-> ExcelRow(i, k[i])] :
        k \in UNION {[1..n -> RowKinds] : n \in 0..MaxIndexRows}}

\* items of a database.json that src/indexer.py reads: with or without a
\* 'File Path' that contains 'bathroom', with or without a description;
\* checked records an os.path.exists test of the asset in the running indexer
JsonItem(i, path_ok, desc) ==
    [id |-> i, run |-> "previous", path_ok |-> path_ok, desc |-> desc,
     fixed |-> FALSE, checked |-> FALSE]

JsonFiles ==
    {Undecodable, NullFile} \cup
    {JsonList([i \in 1..Len(f) |-> JsonItem(i, f[i][1], f[i][2])]) :
        f \in UNION {[1..n -> BOOLEAN \X BOOLEAN] : n \in 0..MaxIndexRows}}

\* the files an earlier run of src/design/index.py left behind
PreviousItems(n) ==
    [i \in 1..n |-> [ExcelRow(i, "ok") EXCEPT !.run = "previous",
                                             !.checked = TRUE]]

\* the text embedded for an item: its description, "" if it has none
TextOf(item) ==
    [of |-> item.id, run |-> item.run,
     text |-> IF item.desc THEN "description" ELSE "empty"]

\* descriptions = [d if d is not None else "" for ...]: one text per item
Descriptions(items) == [i \in 1..Len(items) |-> TextOf(items[i])]

\* the locals of main before the loop
IndexerAtStart(sheet) ==
    [pc |-> "start", input |-> sheet, data |-> <<>>, i |-> 0,
     cleaned_data |-> <<>>, descriptions |-> <<>>,
     json_written |-> FALSE, npy_written |-> FALSE]

\* an indexer touches nothing of a serving process
IndexFrame ==
    /\ pc = "indexer"
    /\ UNCHANGED <<module, pc, data, embeddings, user_query, top_k,
                   parsed_query, encoded, similarities_positive,
                   similarities_negative, final_scores, sorted_indices,
                   results, outcome, apiVars, concVars, repeatVars,
                   chatVars, imageVars>>

\* sys.exit(1), or an exception that leaves main
IndexerExit == indexer' = [indexer EXCEPT !.pc = "exited"]

\* pd.read_excel (design); SentenceTransformer(...) and json.load (root),
\* which exits when the model does not load, when database.json is missing
\* or cannot be decoded, and when its content is not a list
IndexLoad ==
    /\ IndexFrame
    /\ indexer.pc = "start"
    /\ IF module = "design"
       THEN \E readable \in BOOLEAN :
               IF readable
               THEN indexer' = [indexer EXCEPT !.pc = "loop",
                                               !.data = indexer.input]
               ELSE IndexerExit
       ELSE \E loaded \in BOOLEAN :
               IF loaded /\ db_file.json = "list"
               THEN indexer' = [indexer EXCEPT !.pc = "loop",
                                               !.data = db_file.items]
               ELSE IndexerExit
    /\ UNCHANGED <<db_file, npy_rows, npy_desc>>

\* src/design/index.py, body of the loop: an item is kept when Style, File
\* Name and Generated Description are there and the image exists at the
\* path built from them; the item and its description are appended together
KeepItem(ix, item) ==
    IF item.style /\ item.file_name /\ item.desc /\ item.style_is_text
       /\ item.image
    THEN [ix EXCEPT !.cleaned_data =
                        Append(@, [item EXCEPT !.checked = TRUE]),
                    !.descriptions = Append(@, TextOf(item))]
    ELSE ix

\* src/indexer.py, body of the loop: the path of an item is corrected in
\* place when it contains 'bathroom'; every item stays in data
FixPath(ix, n) ==
    [ix EXCEPT !.data[n].fixed = ix.data[n].path_ok]

\* one iteration of the loop over data
IndexLoop ==
    /\ IndexFrame
    /\ indexer.pc = "loop"
    /\ indexer.i < Len(indexer.data)
    /\ \E n \in {indexer.i + 1} :
        indexer' =
            [(IF module = "design" THEN KeepItem(indexer, indexer.data[n])
              ELSE FixPath(indexer, n))
             EXCEPT !.i = n]
    /\ UNCHANGED <<db_file, npy_rows, npy_desc>>

\* the list main writes to database.json
ListToSave == IF module = "design" THEN indexer.cleaned_data ELSE indexer.data

\* json.dump to database.json, opened with 'w': open truncates the file, so
\* a dump that fails leaves the beginning of the new list behind, which is
\* no JSON; on either failure sys.exit(1)
IndexSaveJson ==
    /\ IndexFrame
    /\ indexer.pc = "loop"
    /\ indexer.i = Len(indexer.data)
    /\ \E how \in {"saved", "open fails", "dump fails"} :
        CASE how = "saved" ->
             /\ db_file' = JsonList(ListToSave)
             /\ indexer' =
                  [indexer EXCEPT
                      !.pc = "encode",
                      !.json_written = TRUE,
                      !.descriptions =
                          IF module = "design" THEN @
                          ELSE Descriptions(indexer.data)]
          [] how = "open fails" -> IndexerExit /\ UNCHANGED db_file
          [] OTHER ->
             /\ db_file' = Undecodable
             /\ indexer' = [indexer EXCEPT !.pc = "exited",
                                           !.json_written = TRUE]
    /\ UNCHANGED <<npy_rows, npy_desc>>

\* model.encode(descriptions); src/design/index.py saves an empty array and
\* returns when there is nothing to embed; on failure sys.exit(1)
IndexEncode ==
    /\ IndexFrame
    /\ indexer.pc = "encode"
    /\ IF module = "design" /\ indexer.descriptions = <<>>
       THEN \E how \in {"saved", "open fails", "write fails"} :
            CASE how = "saved" ->
                 /\ npy_rows' = 0
                 /\ npy_desc' = <<>>
                 /\ indexer' = [indexer EXCEPT !.pc = "done",
                                               !.npy_written = TRUE]
              [] how = "open fails" ->
                 IndexerExit /\ UNCHANGED <<npy_rows, npy_desc>>
              [] OTHER ->
                 /\ npy_rows' = -2
                 /\ npy_desc' = <<>>
                 /\ IndexerExit
       ELSE \E worked \in BOOLEAN :
            /\ IF worked THEN indexer' = [indexer EXCEPT !.pc = "save"]
               ELSE IndexerExit
            /\ UNCHANGED <<npy_rows, npy_desc>>
    /\ UNCHANGED db_file

\* np.save('embeddings.npy', embeddings); on failure sys.exit(1).  A save
\* that fails after it has opened the file leaves a file np.load cannot read
IndexSaveNpy ==
    /\ IndexFrame
    /\ indexer.pc = "save"
    /\ \E how \in {"saved", "open fails", "write fails"} :
        CASE how = "saved" ->
             /\ npy_rows' = Len(indexer.descriptions)
             /\ npy_desc' = indexer.descriptions
             /\ indexer' = [indexer EXCEPT !.pc = "done",
                                           !.npy_written = TRUE]
          [] how = "open fails" ->
             IndexerExit /\ UNCHANGED <<npy_rows, npy_desc>>
          [] OTHER ->
             /\ npy_rows' = -2
             /\ npy_desc' = <<>>
             /\ IndexerExit
    /\ UNCHANGED db_file

\* the disk before the run: nothing, or the two files of an earlier run
\* (design); a database.json with or without the embeddings.npy made from
\* it (root)
InitIndex ==
    /\ module \in {"design", "root"}
    /\ pc = "indexer"
    /\ IF module = "design"
       THEN /\ indexer \in {IndexerAtStart(s) : s \in ExcelSheets}
            /\ \E n \in -1..MaxIndexRows :
                 /\ db_file = IF n < 0 THEN MissingFile
                              ELSE JsonList(PreviousItems(n))
                 /\ npy_rows = n
                 /\ npy_desc = IF n < 0 THEN <<>>
                               ELSE Descriptions(PreviousItems(n))
       ELSE /\ indexer = IndexerAtStart(<<>>)
            /\ db_file \in JsonFiles \cup {MissingFile}
            /\ \E embedded \in BOOLEAN :
                 /\ embedded => db_file.json = "list"
                 /\ npy_rows = IF embedded THEN Len(db_file.items) ELSE -1
                 /\ npy_desc = IF embedded THEN Descriptions(db_file.items)
                               ELSE <<>>
    /\ data = <<>>
    /\ embeddings = 0
    /\ user_query = <<>>
    /\ top_k = -1
    /\ parsed_query = NotParsed
    /\ encoded = <<>>
    /\ similarities_positive = <<>>
    /\ similarities_negative = <<>>
    /\ final_scores = <<>>
    /\ sorted_indices = <<>>
    /\ results = <<>>
    /\ outcome = "none"
    /\ reply = NoReply
    /\ threads = <<>>
    /\ memo = NoMemo
    /\ chat_history = <<>>
    /\ chat_calls = <<>>
    /\ generate = NoGenerate

NextIndex ==
    IndexLoad \/ IndexLoop \/ IndexSaveJson \/ IndexEncode \/ IndexSaveNpy

SpecIndex == InitIndex /\ [][NextIndex]_vars

(***************************************************************************)
(* src/model.py: the image-generation endpoint POST /generate.             *)
(* A request is the multipart form FastAPI hands to generate_image, the    *)
(* state of the environment, and what the outside world will do: whether   *)
(* the upload can be read and what replicate.run gives back.               *)
(***************************************************************************)

\* file.content_type of the upload; None when the part has no content type
NoContentType == [present |-> FALSE, text |-> <<>>]

ContentType(text) == [present |-> TRUE, text |-> text]

ContentTypes ==
    { NoContentType,
      ContentType(<<>>),
      ContentType(<<"i","m","a","g","e","/","p","n","g">>),
      ContentType(<<"I","m","a","g","e","/","p","n","g">>),
      ContentType(<<"t","e","x","t","/","p","l","a","i","n">>) }

\* str.startswith
StartsWith(text, prefix) ==
    /\ Len(text) >= Len(prefix)
    /\ SubSeq(text, 1, Len(prefix)) = prefix

\* not (not mime_type or not mime_type.startswith("image/"))
IsImageType(mime_type) ==
    /\ mime_type.present
    /\ mime_type.text # <<>>
    /\ StartsWith(mime_type.text, <<"i","m","a","g","e","/">>)

\* the keys of CONTROLNET_MODELS
CONTROLNET_MODELS == {"canny", "openpose", "depth"}

ControlnetTypes == {"canny", "openpose", "scribble"}

\* what replicate.run does: returns a non-empty list, an empty list or
\* something that is no list, raises ReplicateError or another exception
ReplicateOutcomes ==
    {"list", "empty_list", "not_list", "ReplicateError", "Exception"}

\* the forms posted to /generate: the content type of the file part and the
\* controlnet_type field
UploadForms == [content_type : ContentTypes, controlnet_type : ControlnetTypes]

\* a request as generate_image meets it: the form, the environment, and what
\* file.read() and replicate.run do when they are called
GenerateRequests ==
    [token : BOOLEAN, content_type : ContentTypes, readable : BOOLEAN,
     controlnet_type : ControlnetTypes, replicate : ReplicateOutcomes]

\* the response of the endpoint, with what the handler did on the way
Response(status, detail, called, closed) ==
    [status |-> status, detail |-> detail, replicate_called |-> called,
     file_closed |-> closed]

NoResponse == Response(0, "", FALSE, FALSE)

\* what the body of the first try block raises: the HTTPException(400) of
\* the type check, the error of a failed file.read(), or nothing
ReadRaises(req) ==
    IF ~IsImageType(req.content_type) THEN "HTTPException(400)"
    ELSE IF ~req.readable THEN "Exception"
    ELSE "none"

\* what the body of the second try block does with the output of
\* replicate.run: return the first element, or raise
RunRaises(req) ==
    CASE req.replicate = "list" -> "none"
      [] req.replicate \in {"empty_list", "not_list"} -> "HTTPException(500)"
      [] req.replicate = "ReplicateError" -> "ReplicateError"
      [] OTHER -> "Exception"

\* generate_image from call to answer: the token check, the first try with
\* its except Exception and finally, the model lookup, the second try with
\* its two except clauses.  HTTPException is an Exception, so except
\* Exception catches it too
generate_image(req) ==
    IF ~req.token
    THEN Response(500, "REPLICATE_API_TOKEN environment variable not set.",
                  FALSE, FALSE)
    ELSE IF ReadRaises(req) # "none"
    THEN Response(500, "Failed to read or encode file", FALSE, TRUE)
    ELSE IF req.controlnet_type \notin CONTROLNET_MODELS
    THEN Response(400, "Invalid controlnet_type", FALSE, TRUE)
    ELSE CASE RunRaises(req) = "none" ->
                Response(200, "new_image_url", TRUE, TRUE)
           [] RunRaises(req) = "ReplicateError" ->
                Response(500, "Replicate API Error", TRUE, TRUE)
           [] OTHER ->
                Response(500, "An unexpected error occurred", TRUE, TRUE)

\* generate_image is a coroutine: it gives the event loop to other requests
\* at await file.read() and at await file.close(), and nowhere else
\* (replicate.run blocks).  An upload is a request with its position: pc,
\* and raised, the exception the first try block has met so far
MaxUploads == 2

NoUpload ==
    [pc |-> "none", form |-> [content_type |-> NoContentType,
                              controlnet_type |-> ""],
     raised |-> "none", response |-> NoResponse]

\* the request of upload u, with what read and replicate.run did
RequestOf(u, out) ==
    [token           |-> generate.token,
     content_type    |-> generate.uploads[u].form.content_type,
     readable        |-> generate.uploads[u].raised # "Exception",
     controlnet_type |-> generate.uploads[u].form.controlnet_type,
     replicate       |-> out]

ImageFrame ==
    /\ pc = "generate"
    /\ UNCHANGED <<module, pc, db_file, npy_rows, data, embeddings,
                   user_query, top_k, parsed_query, encoded,
                   similarities_positive, similarities_negative,
                   final_scores, sorted_indices, results, outcome,
                   apiVars, concVars, repeatVars, indexVars, chatVars>>

\* a client posts a form to /generate
PostGenerate(u) ==
    /\ ImageFrame
    /\ generate.uploads[u].pc = "none"
    /\ \E f \in UploadForms :
         generate' = [generate EXCEPT !.uploads[u] =
                         [NoUpload EXCEPT !.pc = "received", !.form = f]]

\* from the call to the first await: the token check raises, or the type
\* check raises inside the try and the finally clause awaits file.close(),
\* or the handler awaits file.read()
GenerateStart(u) ==
    /\ ImageFrame
    /\ generate.uploads[u].pc = "received"
    /\ generate' =
         IF ~generate.token
         THEN [generate EXCEPT
                  !.uploads[u].pc = "answered",
                  !.uploads[u].response = generate_image(RequestOf(u, "list"))]
         ELSE IF ~IsImageType(generate.uploads[u].form.content_type)
         THEN [generate EXCEPT !.uploads[u].pc = "closing",
                               !.uploads[u].raised = "HTTPException(400)"]
         ELSE [generate EXCEPT !.uploads[u].pc = "reading"]

\* file.read() returns or raises; either way the finally clause awaits
\* file.close()
GenerateRead(u) ==
    /\ ImageFrame
    /\ generate.uploads[u].pc = "reading"
    /\ \E readable \in BOOLEAN :
         generate' = [generate EXCEPT
                         !.uploads[u].pc = "closing",
                         !.uploads[u].raised =
                             IF readable THEN "none" ELSE "Exception"]

\* file.close() returns: the pending exception leaves the handler as the
\* 500 of except Exception, or the handler goes on through the lookup and
\* replicate.run to its answer
GenerateClose(u) ==
    /\ ImageFrame
    /\ generate.uploads[u].pc = "closing"
    /\ \E out \in ReplicateOutcomes :
         generate' = [generate EXCEPT
                         !.uploads[u].pc = "answered",
                         !.uploads[u].response =
                             generate_image(RequestOf(u, out))]

\* the answer is sent and the slot serves the next request
NextGenerate(u) ==
    /\ ImageFrame
    /\ generate.uploads[u].pc = "answered"
    /\ generate' = [generate EXCEPT !.uploads[u] = NoUpload]

InitImage ==
    /\ module = "root"
    /\ pc = "generate"
    /\ generate \in {[token |-> t, uploads |-> [u \in 1..MaxUploads |-> NoUpload]] :
                        t \in BOOLEAN}
    /\ db_file = MissingFile
    /\ npy_rows = -1
    /\ npy_desc = <<>>
    /\ indexer = NotIndexing
    /\ data = <<>>
    /\ embeddings = 0
    /\ user_query = <<>>
    /\ top_k = -1
    /\ parsed_query = NotParsed
    /\ encoded = <<>>
    /\ similarities_positive = <<>>
    /\ similarities_negative = <<>>
    /\ final_scores = <<>>
    /\ sorted_indices = <<>>
    /\ results = <<>>
    /\ outcome = "none"
    /\ reply = NoReply
    /\ threads = <<>>
    /\ memo = NoMemo
    /\ chat_history = <<>>
    /\ chat_calls = <<>>

NextImage ==
    \/ \E u \in 1..MaxUploads : PostGenerate(u)
    \/ \E u \in 1..MaxUploads : GenerateStart(u)
    \/ \E u \in 1..MaxUploads : GenerateRead(u)
    \/ \E u \in 1..MaxUploads : GenerateClose(u)
    \/ \E u \in 1..MaxUploads : NextGenerate(u)

SpecImage == InitImage /\ [][NextImage]_vars

(***************************************************************************)
(* src/chat.py and src/chatbot/chat.py: generate_for_api, generate and the  *)
(* global chat_history.  The /chat endpoint runs one generate_for_api call *)
(* per request thread and the command line loop calls generate; a call     *)
(* appends the user entry, asks the model with the whole history, and      *)
(* appends the model entry when the request succeeds.                      *)
(***************************************************************************)

MaxChatCalls == 3

\* types.Content(role=..., parts=[...]); call numbers the call that wrote it
Content(role, call) == [role |-> role, call |-> call]

\* the two functions that write chat_history: generate_for_api returns the
\* reply or "Error: ...", generate prints them and returns None
ChatFunctions == {"generate_for_api", "generate"}

\* a thread that is inside neither function; raised tells whether the try
\* block of its last call met an exception
IdleCall ==
    [pc |-> "idle", fn |-> "none", call |-> 0, before |-> <<>>,
     raised |-> FALSE, returned |-> "none"]

\* the calls made so far: one user entry each
CallsStarted ==
    Cardinality({i \in 1..Len(chat_history) : chat_history[i].role = "user"})

ChatFrame ==
    /\ pc = "chat"
    /\ UNCHANGED <<module, pc, db_file, npy_rows, data, embeddings,
                   user_query, top_k, parsed_query, encoded,
                   similarities_positive, similarities_negative,
                   final_scores, sorted_indices, results, outcome,
                   apiVars, concVars, repeatVars, indexVars, imageVars>>

\* generate_for_api or generate is called:
\* chat_history.append(types.Content(role="user", ...)), before the try;
\* before keeps the history the call found
ChatAppendUser(t) ==
    /\ ChatFrame
    /\ chat_calls[t].pc = "idle"
    /\ CallsStarted < MaxChatCalls
    /\ \E n \in {CallsStarted + 1}, fn \in ChatFunctions :
        /\ chat_history' = Append(chat_history, Content("user", n))
        /\ chat_calls' = [chat_calls EXCEPT ![t] =
               [pc |-> "requesting", fn |-> fn, call |-> n,
                before |-> chat_history, raised |-> FALSE,
                returned |-> "none"]]

\* generate_content answers and the reply text is read: the model entry is
\* appended and the reply returned
ChatReply(t) ==
    /\ ChatFrame
    /\ chat_calls[t].pc = "requesting"
    /\ chat_history' =
           Append(chat_history, Content("model", chat_calls[t].call))
    /\ chat_calls' = [chat_calls EXCEPT
           ![t].pc = "returned",
           ![t].returned = IF chat_calls[t].fn = "generate_for_api"
                           THEN "reply" ELSE "None"]

\* generate_content or the reading of the reply raises: except Exception
\* returns "Error: ..." (generate prints it) and touches nothing
ChatError(t) ==
    /\ ChatFrame
    /\ chat_calls[t].pc = "requesting"
    /\ chat_calls' = [chat_calls EXCEPT
           ![t].pc = "returned",
           ![t].raised = TRUE,
           ![t].returned = IF chat_calls[t].fn = "generate_for_api"
                           THEN "Error" ELSE "None"]
    /\ UNCHANGED chat_history

\* the thread is ready for its next call
ChatNext(t) ==
    /\ ChatFrame
    /\ chat_calls[t].pc = "returned"
    /\ chat_calls' = [chat_calls EXCEPT ![t] = IdleCall]
    /\ UNCHANGED chat_history

InitChat ==
    /\ module = "root"
    /\ pc = "chat"
    /\ chat_history = <<>>
    /\ chat_calls = [t \in 1..MaxThreads |-> IdleCall]
    /\ generate = NoGenerate
    /\ db_file = MissingFile
    /\ npy_rows = -1
    /\ npy_desc = <<>>
    /\ indexer = NotIndexing
    /\ data = <<>>
    /\ embeddings = 0
    /\ user_query = <<>>
    /\ top_k = -1
    /\ parsed_query = NotParsed
    /\ encoded = <<>>
    /\ similarities_positive = <<>>
    /\ similarities_negative = <<>>
    /\ final_scores = <<>>
    /\ sorted_indices = <<>>
    /\ results = <<>>
    /\ outcome = "none"
    /\ reply = NoReply
    /\ threads = <<>>
    /\ memo = NoMemo

NextChat ==
    \/ \E t \in 1..MaxThreads : ChatAppendUser(t)
    \/ \E t \in 1..MaxThreads : ChatReply(t)
    \/ \E t \in 1..MaxThreads : ChatError(t)
    \/ \E t \in 1..MaxThreads : ChatNext(t)

SpecChat == InitChat /\ [][NextChat]_vars

(***************************************************************************)
(* Vocabulary of the properties                                            *)
(***************************************************************************)
\* a search has returned normally and its locals are still in view
Returned == pc = "returned" /\ outcome = "ok"

ResultIdx == [r \in 1..Len(results) |-> results[r].idx]

\* results are in non-increasing score order
Descending ==
    \A r \in 1..Len(results) : \A t \in 1..Len(results) :
        r < t => results[r].score >= results[t].score

\* r is x without its leading and trailing whitespace
IsTrimOf(r, x) ==
    \E a \in 1..(Len(x) + 1) : \E b \in 0..Len(x) :
        /\ r = SubSeq(x, a, b)
        /\ \A i \in 1..Len(x) : (i < a \/ i > b) => x[i] \in Whitespace
        /\ r # <<>> => (r[1] \notin Whitespace /\ r[Len(r)] \notin Whitespace)

\* the characters of trigger t stand in text q at position p, in any case
TriggerCharsAt(q, t, p) ==
    /\ p >= 1
    /\ p + Len(t) - 1 <= Len(q)
    /\ LowerText(SubSeq(q, p, p + Len(t) - 1)) = t

\* trigger t occurs in q at position p with whitespace on both sides
OccursAt(q, t, p) ==
    /\ TriggerCharsAt(q, t, p)
    /\ p >= 2
    /\ q[p - 1] \in Whitespace
    /\ p + Len(t) <= Len(q)
    /\ q[p + Len(t)] \in Whitespace

Triggers == Range(negative_triggers)

Occurrences(q) ==
    {o \in (1..Len(q)) \X Triggers : OccursAt(q, o[2], o[1])}

\* the parser has run on user_query
Parsed == parsed_query # NotParsed

BeforeOcc(q, o) == SubSeq(q, 1, o[1] - 2)
AfterOcc(q, o)  == SubSeq(q, o[1] + Len(o[2]) + 1, Len(q))

(***************************************************************************)
(* C1: results are ordered by final score descending and, among equal      *)
(* final scores, the lower catalog index comes first (both rankings; the   *)
(* fixed-K ranking is taken with k >= 1, the k = 0 slice belongs to C2).   *)
(* Refuted: np.argsort(...)[::-1] does not put the lower index first.      *)
(***************************************************************************)
C1_LowerIndexWinsTies ==
    (Returned /\ (module = "design" => top_k >= 1)) =>
        /\ Descending
        /\ \A r \in 1..Len(results) : \A t \in 1..Len(results) :
              (r < t /\ results[r].score = results[t].score)
                  => results[r].idx < results[t].idx

(***************************************************************************)
(* C2: fixed-K mode returns exactly k results when N >= k and N results    *)
(* when N < k, for every k >= 0.  Refuted at k = 0: [-0:] is the whole     *)
(* array.                                                                  *)
(***************************************************************************)
C2_FixedKLength ==
    (Returned /\ module = "design") =>
        Len(results) = IF Len(data) >= top_k THEN top_k ELSE Len(data)

(***************************************************************************)
(* C3: fixed-K mode with 1 <= k <= N returns k distinct items with ranks   *)
(* 1..k in output order, in non-increasing score order, each with its own  *)
(* final score, and no omitted item scores strictly higher than a returned *)
(* one; scores [0.9, 0.4, 0.1] with k = 2 give items 0 and 1.              *)
(***************************************************************************)
C3_FixedKReturnsTopK ==
    (Returned /\ module = "design" /\ 1 <= top_k /\ top_k <= Len(data)) =>
        /\ Len(results) = top_k
        /\ Cardinality(Range(ResultIdx)) = top_k
        /\ \A r \in 1..Len(results) :
              /\ results[r].rank = r
              /\ results[r].idx \in 1..Len(data)
              /\ results[r].score = final_scores[results[r].idx]
              /\ results[r].item = data[results[r].idx]
        /\ Descending
        /\ \A i \in 1..Len(data) : \A r \in 1..Len(results) :
              i \notin Range(ResultIdx) => final_scores[i] <= results[r].score
        /\ (final_scores = <<9, 4, 1>> /\ top_k = 2) => ResultIdx = <<1, 2>>

C3_Witness ==
    /\ Returned
    /\ module = "design"
    /\ final_scores = <<9, 4, 1>>
    /\ top_k = 2
    /\ ResultIdx = <<1, 2>>

(***************************************************************************)
(* C4: threshold-filtered mode returns only scores strictly below 0.5, in  *)
(* non-increasing order, at most 6 of them, namely the first (up to 6)     *)
(* catalog items below the threshold met by the descending scan; when no   *)
(* item is below the threshold the result is the empty list.               *)
(***************************************************************************)
BelowThreshold(idx) == final_scores[idx] < Threshold /\ idx <= Len(data)

C4_ThresholdMode ==
    (Returned /\ module = "root") =>
        LET scan  == Reverse(sorted_indices)
            below == SelectSeq(scan, BelowThreshold)
            m     == IF Len(below) < MaxResults THEN Len(below) ELSE MaxResults
        IN  /\ \A r \in 1..Len(results) : results[r].score < Threshold
            /\ Descending
            /\ Len(results) <= MaxResults
            /\ ResultIdx = SubSeq(below, 1, m)
            /\ \A r \in 1..Len(results) :
                  results[r].score = final_scores[results[r].idx]
            /\ (\A i \in 1..Len(final_scores) : ~BelowThreshold(i))
                  => results = <<>>

C4_Witness ==
    /\ Returned
    /\ module = "root"
    /\ Len(results) = MaxResults
    /\ \E i \in 1..Len(final_scores) :
          BelowThreshold(i) /\ i \notin Range(ResultIdx)
    /\ \E r \in 1..Len(results) : results[r].score # results[1].score

(***************************************************************************)
(* C5: for every trigger T, in any case, and all texts X, Y, parsing       *)
(* "X T Y" gives positive_query = X trimmed and negative_query = Y         *)
(* trimmed.  The claim is taken where the specified parser, which uses the *)
(* first trigger that is surrounded by whitespace, agrees with it: T       *)
(* stands between two blanks and no trigger surrounded by whitespace       *)
(* starts before it.  Refuted through C6: the split can fall inside a word *)
(* of X.                                                                   *)
(***************************************************************************)
BetweenBlanks(q, o) ==
    /\ q[o[1] - 1] = " "
    /\ q[o[1] + Len(o[2])] = " "

C5_SplitsAtTrigger ==
    Parsed =>
        \A o \in Occurrences(user_query) :
            (/\ BetweenBlanks(user_query, o)
             /\ \A o2 \in Occurrences(user_query) : o[1] <= o2[1])
            => /\ IsTrimOf(parsed_query.positive_query, BeforeOcc(user_query, o))
               /\ IsTrimOf(parsed_query.negative_query, AfterOcc(user_query, o))

(***************************************************************************)
(* C6: when every occurrence of a trigger's characters lies inside a       *)
(* longer word, no split happens: positive_query is the whole query and    *)
(* negative_query is empty.  Refuted: only "but not" requires a blank      *)
(* before it and only "excluding" one after it.                            *)
(***************************************************************************)
InsideLongerWord(q, t, p) ==
    \/ (p >= 2 /\ q[p - 1] \notin Whitespace)
    \/ (p + Len(t) <= Len(q) /\ q[p + Len(t)] \notin Whitespace)

C6_NoSplitInsideWord ==
    (/\ Parsed
     /\ \A p \in 1..Len(user_query) : \A t \in Triggers :
           TriggerCharsAt(user_query, t, p) => InsideLongerWord(user_query, t, p))
    => /\ parsed_query.positive_query = user_query
       /\ parsed_query.negative_query = <<>>

(***************************************************************************)
(* C7: with several trigger occurrences the query is split at the          *)
(* left-most one only: positive_query is the trimmed text before it and    *)
(* negative_query the trimmed text after it, later triggers included.      *)
(* Refuted through C6: the split can fall inside a word before it.         *)
(***************************************************************************)
C7_SplitsAtLeftmostOccurrence ==
    (Parsed /\ Cardinality(Occurrences(user_query)) >= 2) =>
        \A o \in Occurrences(user_query) :
            (\A o2 \in Occurrences(user_query) : o[1] <= o2[1]) =>
                /\ IsTrimOf(parsed_query.positive_query, BeforeOcc(user_query, o))
                /\ IsTrimOf(parsed_query.negative_query, AfterOcc(user_query, o))

(***************************************************************************)
(* C8: a query without a negative trigger is parsed to itself with an      *)
(* empty negative_query, and is scored by the positive similarity alone    *)
(* after a single model.encode call.  Refuted through C6.                  *)
(***************************************************************************)
C8_NoTriggerNoPenalty ==
    (Returned /\ Occurrences(user_query) = {}) =>
        /\ parsed_query.positive_query = user_query
        /\ parsed_query.negative_query = <<>>
        /\ encoded = <<user_query>>
        /\ final_scores = similarities_positive

(***************************************************************************)
(* C9: when the parsed negative clause is non-empty every item is scored   *)
(* positive similarity minus 1.0 times negative similarity; when it is     *)
(* empty every item is scored by its positive similarity.                  *)
(***************************************************************************)
C9_PenaltyScoring ==
    Returned =>
        /\ Len(final_scores) = embeddings
        /\ Len(similarities_positive) = embeddings
        /\ IF parsed_query.negative_query # <<>>
           THEN /\ Len(similarities_negative) = embeddings
                /\ \A i \in 1..embeddings :
                      final_scores[i] =
                          similarities_positive[i] - similarities_negative[i]
           ELSE final_scores = similarities_positive

C9_Witness ==
    /\ Returned
    /\ parsed_query.negative_query = <<"m","a","r","b","l","e">>
    /\ \E i \in 1..embeddings :
          /\ similarities_negative[i] > 0
          /\ final_scores[i] = similarities_positive[i] - similarities_negative[i]
          /\ final_scores[i] # similarities_positive[i]

(***************************************************************************)
(* C10: whenever load_resources has returned normally, the number of       *)
(* loaded items equals the number of embedding rows.  Refuted for          *)
(* src/search.py, which only prints a warning.                             *)
(***************************************************************************)
C10_CountsAgreeWhenServing ==
    pc \in {"serving", "returned"} => Len(data) = embeddings

(***************************************************************************)
(* C11: when database.json holds more items than embeddings.npy has rows,  *)
(* load_resources keeps the items that have a 'Generated Description',     *)
(* serves with that filtered list if it now has as many items as there are *)
(* rows, and otherwise ends the process without serving.  Refuted:         *)
(* src/search.py serves although the counts still differ, and              *)
(* src/design/search.py exits without filtering.  A load that ended before *)
(* it had read the list (no sentence transformer) leaves data unset and is *)
(* not a case of the claim.                                                *)
(***************************************************************************)
Described(items) ==
    LET Keep(item) == item.desc IN SelectSeq(items, Keep)

C11_FilterThenRecheck ==
    (/\ pc # "start"
     /\ db_file.json = "list"
     /\ (pc # "exited" \/ data # <<>>)
     /\ npy_rows >= 0
     /\ Len(db_file.items) > npy_rows)
    => IF Len(Described(db_file.items)) = npy_rows
       THEN pc \in {"serving", "returned"} /\ data = Described(db_file.items)
       ELSE pc = "exited"

(***************************************************************************)
(* C17: a query that is exactly one of the trigger phrases is parsed into  *)
(* an empty positive_query.  Refuted: "but not" without a blank before it  *)
(* and "excluding" without a blank after it are not matched by the         *)
(* pattern, so the whole query stays the positive_query.                   *)
(***************************************************************************)
C17_TriggerAloneGivesEmptyPositive ==
    (Parsed /\ LowerText(user_query) \in Triggers)
    => parsed_query.positive_query = <<>>

CatalogKeptByStep ==
    pc \in {"serving", "returned"} =>
        /\ data' = data
        /\ embeddings' = embeddings
        /\ (pc' = "returned" /\ outcome' = "ok") =>
              \A r \in 1..Len(results') :
                  /\ results'[r].idx \in 1..Len(data)
                  /\ results'[r].item = data[results'[r].idx]
                  /\ results'[r].rank = r

(***************************************************************************)
(* C14: once load_resources has completed, no step of the serving process  *)
(* changes the global item list, any item record in it, or the embedding   *)
(* matrix, whether the search succeeds or fails and with or without a      *)
(* negative clause; every result carries a copy of the item at its index,  *)
(* with the score and the rank next to it.                                 *)
(***************************************************************************)
C14_SearchLeavesCatalog == [][CatalogKeptByStep]_vars

C14_Witness ==
    /\ Returned
    /\ parsed_query.negative_query # <<>>
    /\ Len(results) >= 2
    /\ data = db_file.items
    /\ \A r \in 1..Len(results) : results[r].item = data[results[r].idx]

(***************************************************************************)
(* C12: a request whose query is empty after trimming whitespace is        *)
(* answered 400 "Empty query" by both endpoints and makes the CLI loops go *)
(* back to the prompt; in every case perform_search is not called: nothing *)
(* is parsed, encoded, scored or ranked.                                   *)
(***************************************************************************)
BlankText(t) == \A i \in 1..Len(t) : t[i] \in Whitespace

BlankQuerySent ==
    /\ pc = "returned"
    /\ reply.payload.json \in {"object", "stdin"}
    /\ reply.payload.field \in {"string", "absent"}
    /\ BlankText(reply.payload.text)

C12_EmptyQueryNotSearched ==
    BlankQuerySent =>
        /\ ~reply.searched
        /\ parsed_query = NotParsed
        /\ encoded = <<>>
        /\ final_scores = <<>>
        /\ sorted_indices = <<>>
        /\ results = <<>>
        /\ outcome = "none"
        /\ reply.via = "http" => (reply.status = 400 /\ reply.error = "Empty query")
        /\ reply.via = "cli" => reply.body = <<>>

C12_Witness ==
    /\ BlankQuerySent
    /\ reply.via = "http"
    /\ reply.payload.text = <<"U+0085", " ", "U+00A0">>
    /\ reply.status = 400
    /\ embeddings >= 1

(***************************************************************************)
(* C13: when model.encode fails during a search sent to the endpoint, the  *)
(* failure is caught inside perform_search, the request is answered with   *)
(* an error (a server-side status and an error message) and no results.    *)
(* Refuted:                                                                *)
(* perform_search returns [] and the endpoint answers 200 with an empty    *)
(* list, as it does for a search without matches.                          *)
(***************************************************************************)
EncodeFailed ==
    /\ pc = "returned"
    /\ reply.via = "http"
    /\ outcome = "error"
    /\ embeddings >= 1
    /\ Len(data) = embeddings

C13_EncodeFailureSurfaces ==
    EncodeFailed =>
        /\ results = <<>>
        /\ reply.body = <<>>
        /\ reply.status >= 500
        /\ reply.error # ""

(***************************************************************************)
(* C18: every request to /api/search is answered by the handler itself: a  *)
(* body that is not JSON, JSON that is not an object, or a query field     *)
(* that is not a string gets a 400 and no search, and no body makes the    *)
(* handler raise or ends the process.  Refuted: a query field holding a    *)
(* number or null reaches query.strip() outside the try block.             *)
(***************************************************************************)
NoQueryText ==
    \/ reply.payload.json \in {"invalid", "array"}
    \/ reply.payload.field \in {"number", "null"}

C18_EveryRequestHandled ==
    (pc \in {"returned", "exited"} /\ reply.via = "http") =>
        /\ pc = "returned"
        /\ ~reply.unhandled
        /\ NoQueryText => (reply.status = 400 /\ ~reply.searched)

(***************************************************************************)
(* C15: in every interleaving of the perform_search calls in flight, a     *)
(* call that has returned holds exactly the list that perform_search       *)
(* yields for its own query, its own similarity vectors and its own sort   *)
(* order when nothing else runs.                                           *)
(***************************************************************************)
AloneResults(c) ==
    IF c.fail # 0 THEN <<>>
    ELSE LET parsed == get_structured_query(c.q)
             scores == IF parsed.negative_query # <<>>
                       THEN FinalScores(c.sp, c.sn)
                       ELSE c.sp
         IN  IF module = "design"
             THEN FixedKResults(c.order, TopKServed, scores, db_file.items)
             ELSE ThresholdResults(c.order, scores, db_file.items)

C15_ConcurrentSearchesIndependent ==
    \A t \in DOMAIN threads :
        threads[t].at = "done" =>
            threads[t].loc.results = AloneResults(threads[t].call)

C15_Witness ==
    \E t \in DOMAIN threads : \E u \in DOMAIN threads :
        /\ t # u
        /\ threads[t].at = "done"
        /\ threads[u].at = "done"
        /\ threads[t].call.overlapped
        /\ threads[t].loc.results # <<>>
        /\ threads[u].loc.results # <<>>
        /\ threads[t].loc.results # threads[u].loc.results
        /\ threads[t].call.q # threads[u].call.q

(* src/design/index.py the two lists have the same length after every      *)
(* iteration of the loop.  Refuted for src/indexer.py, which persists      *)
(* items without a description and embeds the empty string for them.       *)
(***************************************************************************)
IndexDone == pc = "indexer" /\ indexer.pc = "done"

ListsInStep ==
    (pc = "indexer" /\ module = "design" /\ indexer.pc \in {"loop", "encode"})
    => Len(indexer.cleaned_data) = Len(indexer.descriptions)

C19_EmbeddedTextIsDescription ==
    /\ ListsInStep
    /\ IndexDone =>
          /\ Len(db_file.items) = Len(npy_desc)
          /\ \A i \in 1..Len(npy_desc) :
                /\ npy_desc[i].of = db_file.items[i].id
                /\ npy_desc[i].run = db_file.items[i].run
                /\ db_file.items[i].desc
                /\ npy_desc[i].text = "description"

(***************************************************************************)
(* C20: wherever an indexer run stops (normal end, or sys.exit after a     *)
(* failed read, encoding or save), database.json and embeddings.npy on     *)
(* disk describe the same item list, and database.json has not been        *)
(* rewritten by the run while embeddings.npy is still the one from before. *)
(* Refuted: both indexers write database.json before they encode.          *)
(***************************************************************************)
IndexStopped == pc = "indexer" /\ indexer.pc \in {"done", "exited"}

FilesAgree ==
    \/ ~db_file.exists /\ npy_rows = -1
    \/ /\ db_file.json = "list"
       /\ npy_rows = Len(db_file.items)
       /\ Len(npy_desc) = npy_rows
       /\ \A i \in 1..Len(npy_desc) :
             /\ npy_desc[i].of = db_file.items[i].id
             /\ npy_desc[i].run = db_file.items[i].run

C20_FilesPersistedTogether ==
    (IndexStopped /\ indexer.descriptions # <<>>) =>
        /\ indexer.json_written => indexer.npy_written
        /\ (indexer.json_written \/ indexer.npy_written) => FilesAgree

\* an item as C21 wants it in the catalog: its asset path was tested in the
\* run that wrote it and it has a description; a row read from the Excel
\* sheet has a style, a file name and an image on disk as well
Validated(item) ==
    /\ item.checked
    /\ item.desc
    /\ item.run = "this" => item.style /\ item.file_name /\ item.image

\* C21: every item an indexer writes to database.json has an asset path that
\* was checked to exist during that run, and no item without style, file name,
\* description or image file is written.
C21_WrittenItemsValidated ==
    (pc = "indexer" /\ indexer.pc # "none" /\ indexer.json_written)
        => \A i \in 1..Len(db_file.items) : Validated(db_file.items[i])

\* C23: every result list perform_search returns is well-formed: no catalog
\* index occurs twice, the ranks are 1, 2, ..., len(results) in output order,
\* and each entry carries the item and the final score of its own index.
C23_ResultsWellFormed ==
    Returned =>
        /\ \A r \in 1..Len(results) : \A t \in 1..Len(results) :
              results[r].idx = results[t].idx => r = t
        /\ \A r \in 1..Len(results) :
              /\ results[r].rank = r
              /\ results[r].idx \in 1..Len(data)
              /\ results[r].idx \in 1..Len(final_scores)
              /\ results[r].item = data[results[r].idx]
              /\ results[r].score = final_scores[results[r].idx]

\* two results came back, out of catalog order and with different scores
C23_Witness ==
    /\ Returned
    /\ Len(results) >= 2
    /\ results[1].idx > results[2].idx
    /\ results[1].score # results[2].score

\* the design CLI has answered a query that was searched
CliDesignAnswered ==
    /\ pc = "returned"
    /\ module = "design"
    /\ reply.via = "cli"
    /\ reply.searched
    /\ outcome = "ok"

\* C24: for the same catalog and the same final scores, the CLI filter of
\* src/design/search.py gives the same sequence of results, with the same
\* items, scores and rank numbers, as perform_search of src/search.py.
C24_CliFilterEqualsRootSearch ==
    CliDesignAnswered =>
        reply.body = ThresholdResults(sorted_indices, final_scores, data)

\* /generate has answered upload u, which is no image, with the token set
NotAnImageAnswered(u) ==
    /\ generate.uploads[u].pc = "answered"
    /\ generate.token
    /\ ~IsImageType(generate.uploads[u].form.content_type)

\* C22: an upload whose content type is missing or does not start with
\* "image/" is rejected with status 400 ("Invalid file type") and Replicate
\* is never called for that request.
C22_NonImageUploadRejectedWith400 ==
    \A u \in 1..Len(generate.uploads) :
        NotAnImageAnswered(u) =>
            /\ generate.uploads[u].response.status = 400
            /\ ~generate.uploads[u].response.replicate_called

\* no generate_for_api call is under way
NoCallUnderWay ==
    \A t \in 1..Len(chat_calls) : chat_calls[t].pc # "requesting"

\* user, model, user, model, ... starting with a user entry
Alternates(history) ==
    \A i \in 1..Len(history) :
        history[i].role = IF i % 2 = 1 THEN "user" ELSE "model"

\* C25: after any sequence of generate_for_api calls, failing and concurrent
\* ones included, chat_history alternates user, model, ... starting with a
\* user entry, and a call that returned "Error: ..." left chat_history as it
\* was before the call.
C25_ChatHistoryWellFormed ==
    /\ (pc = "chat" /\ NoCallUnderWay) => Alternates(chat_history)
    /\ \A t \in 1..Len(chat_calls) :
          (chat_calls[t].pc = "returned" /\ chat_calls[t].returned = "Error")
              => chat_history = chat_calls[t].before

====
